---- MODULE Spec2Model ----
(***************************************************************************)
(* State-machine model of the chat interface of juristmindchat             *)
(* (ChatInterface: processMessage, its stream reader and progress-step     *)
(* tracker, the realtime INSERT handler, newChat and regeneration).        *)
(*                                                                         *)
(* Text is a sequence of lexemes (a lexeme stands for a fixed run of       *)
(* characters, LexLen gives its length); the response body is a sequence   *)
(* of wire tokens that the reads cut at arbitrary token boundaries.        *)
(* Each action is one synchronous block of the component: the code between *)
(* two awaits of a handler, or one callback.                               *)
(***************************************************************************)
EXTENDS Integers, Sequences, FiniteSets, TLC

\* ------------------------------------------------------------------ bounds

MaxClock == 2      \* Date.now() ranges over 1..MaxClock
MaxRows == 3       \* rows the chat_messages table can hold
MaxSessions == 2   \* sessions the chat_sessions table can hold
MaxReqs == 2       \* processMessage invocations of a behaviour
MaxChunk == 3      \* lexemes of a content fragment given to the detector

\* ------------------------------------------------------------------ text

\* The characters a lexeme stands for.
LexLen(l) ==
  CASE l = "a199" -> 199
    [] l = "a400" -> 400
    [] l = "a" -> 1
    [] l = "Hello" -> 5
    [] l = " world" -> 6
    [] l = "q" -> 1
    [] l = " " -> 1
    [] l = "\n" -> 1
    [] OTHER -> 7

RECURSIVE TextLen(_)
\* String.length of a text.
TextLen(t) == IF t = <<>> THEN 0 ELSE LexLen(Head(t)) + TextLen(Tail(t))

\* String.prototype.trim() on a text: whitespace lexemes leave both ends.
IsSpace(l) == l \in {" ", "\n"}

RECURSIVE TrimLeft(_)
TrimLeft(t) == IF t # <<>> /\ IsSpace(Head(t)) THEN TrimLeft(Tail(t)) ELSE t

RECURSIVE TrimRight(_)
TrimRight(t) ==
  IF t # <<>> /\ IsSpace(t[Len(t)]) THEN TrimRight(SubSeq(t, 1, Len(t) - 1)) ELSE t

Trim(t) == TrimRight(TrimLeft(t))

\* The fixed strings of processMessage.
errContent == <<"I'm having trouble connecting right now. Please try again.">>
parseFailContent == <<"Response received but could not be parsed.">>
defaultAnswer == <<"I'm JuristMind, your legal AI assistant.">>

\* ------------------------------------------------------- signal detector

\* The literals of the STEP_SIGNALS patterns that a lexeme contains
\* (the patterns carry the i flag: case is ignored).
Atoms(l) ==
  CASE l = "PHASE 1" -> {"PHASE 1"}
    [] l = "phase 2" -> {"PHASE 2"}
    [] l = "PHASE 3" -> {"PHASE 3"}
    [] l = "PHASE 4" -> {"PHASE 4"}
    [] l = "PHASE 5" -> {"PHASE 5"}
    [] l = "section" -> {"section"}
    [] l = "searching" -> {"search", "searching"}
    [] l = "Verified" -> {"verif"}
    [] l = "amendment" -> {"amendment"}
    [] l = "landmark case" -> {"landmark case", "case"}
    [] l = "recent" -> {"recent"}
    [] l = "decision" -> {"decision"}
    [] l = "doctrine" -> {"doctrine"}
    [] l = "Writing" -> {"writing"}
    [] l = "structure" -> {"structur"}
    [] l = "response" -> {"response"}
    [] OTHER -> {}

\* pattern: the alternatives of the regular expression, each the literals
\* that ".*" joins, in order.
STEP_SIGNALS == <<
  [stepId |-> "sections",
   pattern |-> {<<"PHASE 1">>, <<"section", "search">>, <<"searching", "section">>,
                <<"verif", "section">>}],
  [stepId |-> "amendments",
   pattern |-> {<<"PHASE 2">>, <<"amendment", "verif">>, <<"verif", "amendment">>}],
  [stepId |-> "landmark",
   pattern |-> {<<"PHASE 3">>, <<"landmark case">>, <<"searching", "case">>,
                <<"case", "search">>, <<"searched cases">>}],
  [stepId |-> "recent",
   pattern |-> {<<"PHASE 4">>, <<"recent case">>, <<"recent", "decision">>,
                <<"2020", "2021", "2022">>}],
  [stepId |-> "principles",
   pattern |-> {<<"PHASE 5">>, <<"legal principle">>, <<"doctrine">>, <<"trite law">>}],
  [stepId |-> "writing",
   pattern |-> {<<"crunching">>, <<"compiling">>, <<"assembl">>,
                <<"structur", "response">>, <<"writing">>}] >>

RECURSIVE RestMatches(_, _, _)
\* The literals alt occur in chunk from position i on, in order, and no line
\* terminator lies between position i and the last of them ("." excludes "\n").
RestMatches(alt, chunk, i) ==
  IF alt = <<>> THEN TRUE
  ELSE \E j \in i..Len(chunk) :
         /\ Head(alt) \in Atoms(chunk[j])
         /\ \A k \in i..(j - 1) : chunk[k] # "\n"
         /\ RestMatches(Tail(alt), chunk, j + 1)

\* RegExp.prototype.test: some alternative matches somewhere in the chunk.
PatternTest(pattern, chunk) ==
  \E alt \in pattern :
    \E j \in 1..Len(chunk) :
      /\ Head(alt) \in Atoms(chunk[j])
      /\ RestMatches(Tail(alt), chunk, j + 1)

\* A detector that stops at the first signal that matches.
DetectFirst(chunk, n) ==
  LET matched == {m \in n..Len(STEP_SIGNALS) : PatternTest(STEP_SIGNALS[m].pattern, chunk)}
  IN IF matched = {} THEN <<>>
     ELSE <<STEP_SIGNALS[CHOOSE m \in matched : \A k \in matched : m <= k].stepId>>

RECURSIVE DetectFrom(_, _)
\* The for loop of detectStepsFromChunk from signal n on.
DetectFrom(chunk, n) ==
  IF n > Len(STEP_SIGNALS) THEN <<>>
  ELSE (IF PatternTest(STEP_SIGNALS[n].pattern, chunk)
          THEN <<STEP_SIGNALS[n].stepId>> ELSE <<>>) \o DetectFrom(chunk, n + 1)

detectStepsFromChunk(chunk) == DetectFrom(chunk, 1)

\* ---------------------------------------------------------- wire format

\* A JSON payload of the ask endpoint: its type and content fields
\* ("" and <<>> stand for an absent field).
Json(type, content) == [type |-> type, content |-> content]
NoJson == Json("", <<>>)

\* A wire token: the "data:" marker, a line feed, one half of the text of a
\* JSON payload, the [DONE] sentinel, a payload that is no JSON, or a field
\* name other than data.
Tok(k) == [k |-> k, half |-> 0, json |-> NoJson]
JsonTok(h, j) == [k |-> "json", half |-> h, json |-> j]
DataTok == Tok("data:")
NL == Tok("\n")

\* The records a response stream is made of.
ContentRec(text) == [kind |-> "json", json |-> Json("", text)]
HeartbeatRec == [kind |-> "json", json |-> Json("heartbeat", <<>>)]
DoneRec == [kind |-> "json", json |-> Json("done", <<>>)]
SentinelRec == [kind |-> "sentinel", json |-> NoJson]
MalformedRec == [kind |-> "malformed", json |-> NoJson]
CommentRec == [kind |-> "comment", json |-> NoJson]

\* The text of one record on the wire, ended by the double line feed.
Encode(rec) ==
  (CASE rec.kind = "json" -> <<DataTok, JsonTok(1, rec.json), JsonTok(2, rec.json)>>
     [] rec.kind = "sentinel" -> <<DataTok, Tok("[DONE]")>>
     [] rec.kind = "malformed" -> <<DataTok, Tok("{not json}")>>
     [] OTHER -> <<Tok("event:")>>) \o <<NL, NL>>

RECURSIVE EncodeAll(_)
EncodeAll(recs) ==
  IF recs = <<>> THEN <<>> ELSE Encode(Head(recs)) \o EncodeAll(Tail(recs))

RECURSIVE Split(_)
\* chunk.split("\n\n")
Split(chunk) ==
  IF \E i \in 1..(Len(chunk) - 1) : chunk[i] = NL /\ chunk[i + 1] = NL
    THEN LET i == CHOOSE i \in 1..(Len(chunk) - 1) :
                    /\ chunk[i] = NL /\ chunk[i + 1] = NL
                    /\ \A k \in 1..(i - 1) : ~(chunk[k] = NL /\ chunk[k + 1] = NL)
         IN <<SubSeq(chunk, 1, i - 1)>> \o Split(SubSeq(chunk, i + 2, Len(chunk)))
    ELSE <<chunk>>

\* line.startsWith("data:")
StartsWithData(line) == line # <<>> /\ Head(line) = DataTok

RECURSIVE TrimToksLeft(_)
TrimToksLeft(s) == IF s # <<>> /\ Head(s) = NL THEN TrimToksLeft(Tail(s)) ELSE s

RECURSIVE TrimToksRight(_)
TrimToksRight(s) ==
  IF s # <<>> /\ s[Len(s)] = NL THEN TrimToksRight(SubSeq(s, 1, Len(s) - 1)) ELSE s

\* line.slice(5).trim()
DataStr(line) == TrimToksRight(TrimToksLeft(Tail(line)))

\* JSON.parse succeeds on the two halves of one payload and on nothing else.
ParseOk(dataStr) ==
  /\ Len(dataStr) = 2
  /\ dataStr[1].k = "json" /\ dataStr[1].half = 1
  /\ dataStr[2].k = "json" /\ dataStr[2].half = 2
  /\ dataStr[1].json = dataStr[2].json

JsonParse(dataStr) == dataStr[1].json

\* ------------------------------------------------------------- messages

NULL == 0
NoId == <<"undefined", 0>>
\* Date.now().toString() and a row's id never denote the same string.
TimeId(t) == <<"ts", t>>
RowId(n) == <<"row", n>>
Undefined == -1

stepOrder == <<"sections", "amendments", "landmark", "recent", "writing">>
thresholds == <<0, 200, 600, 1200, 2000>>
SignalIds == {STEP_SIGNALS[n].stepId : n \in 1..Len(STEP_SIGNALS)}

Step(id) ==
  [id |-> id, status |-> "pending", startedAt |-> Undefined,
   durationMs |-> Undefined, detail |-> "undefined"]

getInitialSteps == [n \in 1..Len(stepOrder) |-> Step(stepOrder[n])]

\* A Message; processSteps <<>> and isStreaming "undefined" are the absent
\* fields of a message that was loaded or pushed.
Message(id, db_id, content, sender, processSteps, isStreaming) ==
  [id |-> id, db_id |-> db_id, content |-> content, sender |-> sender,
   processSteps |-> processSteps, isStreaming |-> isStreaming]

\* prev.map((m) => m.id === id ? F(m) : m)
MapById(prev, id, F(_)) ==
  [i \in 1..Len(prev) |-> IF prev[i].id = id THEN F(prev[i]) ELSE prev[i]]

\* m.processSteps.map((s) => s.id === stepId ? F(s) : s) on the message id,
\* when it has processSteps
MapStep(prev, id, stepId, F(_)) ==
  LET OnMsg(m) ==
        IF m.processSteps = <<>> THEN m
        ELSE [m EXCEPT !.processSteps =
                [k \in 1..Len(m.processSteps) |->
                   IF m.processSteps[k].id = stepId
                     THEN F(m.processSteps[k]) ELSE m.processSteps[k]]]
  IN MapById(prev, id, OnMsg)

\* ------------------------------------------------- progress step tracker

\* The context of one processMessage call is c = [msgs, q, now]: the message
\* list as the queued setMessages updaters leave it, the call's own variables
\* q, and the reading of Date.now() in the running block.

Reqs == 1..MaxReqs

IdleReq ==
  [pc |-> "idle", messageContent |-> <<>>, isRegeneration |-> FALSE,
   closureSessionId |-> NULL, closureEmpty |-> FALSE,
   sessionId |-> NULL, tempId |-> NoId, aiTempId |-> NoId,
   stepStartTimes |-> [s \in SignalIds |-> 0], activatedSteps |-> {},
   currentStepIndex |-> 0, stepInterval |-> FALSE, charCount |-> 0,
   fullContent |-> <<>>, done |-> FALSE, responseStarted |-> FALSE,
   body |-> <<>>, wire |-> <<>>, dbId |-> NoId,
   saved |-> <<>>, asked |-> FALSE, outcome |-> "none", before |-> <<>>]

\* An activateStep without the test on activatedSteps.
activateStepUnguarded(c, stepId) ==
  LET Run(s) == [s EXCEPT !.status = "running", !.startedAt = c.now]
  IN [c EXCEPT !.q.activatedSteps = @ \cup {stepId},
               !.q.stepStartTimes[stepId] = c.now,
               !.msgs = MapStep(c.msgs, c.q.aiTempId, stepId, Run)]

activateStep(c, stepId) ==
  IF stepId \in c.q.activatedSteps THEN c
  ELSE LET Run(s) == [s EXCEPT !.status = "running", !.startedAt = c.now]
       IN [c EXCEPT !.q.activatedSteps = @ \cup {stepId},
                    !.q.stepStartTimes[stepId] = c.now,
                    !.msgs = MapStep(c.msgs, c.q.aiTempId, stepId, Run)]

completeStep(c, stepId) ==
  LET startTime == IF c.q.stepStartTimes[stepId] # 0
                     THEN c.q.stepStartTimes[stepId] ELSE c.now
      durationMs == c.now - startTime
      Finish(s) == [s EXCEPT !.status = "done", !.durationMs = durationMs,
                             !.detail = "undefined"]
  IN [c EXCEPT !.msgs = MapStep(c.msgs, c.q.aiTempId, stepId, Finish)]

\* The callback of setInterval (stepOrder index i of the code is i + 1 here).
StepIntervalCallback(c) ==
  IF c.q.currentStepIndex < Len(stepOrder) - 1
       /\ TextLen(c.q.fullContent) > c.q.charCount
    THEN LET c1 == [c EXCEPT !.q.charCount = TextLen(c.q.fullContent)]
             found == {i \in 0..(Len(thresholds) - 1) :
                         i > c.q.currentStepIndex
                         /\ TextLen(c.q.fullContent) >= thresholds[i + 1]}
             nextIdx == IF found = {} THEN -1
                        ELSE CHOOSE i \in found : \A k \in found : i <= k
         IN IF nextIdx # -1 /\ nextIdx > c.q.currentStepIndex
              THEN LET c2 == completeStep(c1, stepOrder[c.q.currentStepIndex + 1])
                       c3 == [c2 EXCEPT !.q.currentStepIndex = nextIdx]
                   IN IF nextIdx < Len(stepOrder)
                        THEN activateStep(c3, stepOrder[nextIdx + 1]) ELSE c3
              ELSE c1
    ELSE c

RECURSIVE ActivateAllForward(_, _)
\* A loop over the triggered steps that skips the steps that do not come
\* after the current step in stepOrder.
ActivateAllForward(c, triggered) ==
  IF triggered = <<>> THEN c
  ELSE ActivateAllForward(
         IF /\ Head(triggered) \notin c.q.activatedSteps
            /\ \E n \in 1..Len(stepOrder) :
                 stepOrder[n] = Head(triggered) /\ n > c.q.currentStepIndex + 1
           THEN activateStep(c, Head(triggered)) ELSE c,
         Tail(triggered))

RECURSIVE ActivateAll(_, _)
\* for (const stepId of triggered) if (!activatedSteps.has(stepId)) activateStep(stepId)
ActivateAll(c, triggered) ==
  IF triggered = <<>> THEN c
  ELSE ActivateAll(IF Head(triggered) \notin c.q.activatedSteps
                     THEN activateStep(c, Head(triggered)) ELSE c,
                   Tail(triggered))

\* A body of "if (data.content)" that completes the current step and starts
\* writing on the first content, but leaves currentStepIndex where it is.
OnContentKeepsIndex(c, content) ==
  LET c1 == IF ~c.q.responseStarted
              THEN LET s == [c EXCEPT !.q.responseStarted = TRUE]
                   IN IF s.q.currentStepIndex < Len(stepOrder) - 1
                        THEN activateStep(
                               completeStep(s, stepOrder[s.q.currentStepIndex + 1]),
                               "writing")
                        ELSE s
              ELSE c
      c2 == ActivateAll(c1, detectStepsFromChunk(content))
      full == c2.q.fullContent \o content
      SetContent(m) == [m EXCEPT !.content = full]
  IN [c2 EXCEPT !.q.fullContent = full,
                !.msgs = MapById(c2.msgs, c2.q.aiTempId, SetContent)]

\* The body of "if (data.content)" for one content record.
OnContent(c, content) ==
  LET c1 == IF ~c.q.responseStarted
              THEN LET s == [c EXCEPT !.q.responseStarted = TRUE]
                   IN IF s.q.currentStepIndex < Len(stepOrder) - 1
                        THEN activateStep(
                               [completeStep(s, stepOrder[s.q.currentStepIndex + 1])
                                  EXCEPT !.q.currentStepIndex = Len(stepOrder) - 1],
                               "writing")
                        ELSE s
              ELSE c
      c2 == ActivateAll(c1, detectStepsFromChunk(content))
      full == c2.q.fullContent \o content
      SetContent(m) == [m EXCEPT !.content = full]
  IN [c2 EXCEPT !.q.fullContent = full,
                !.msgs = MapById(c2.msgs, c2.q.aiTempId, SetContent)]

\* A pass in which a payload that JSON.parse rejects ends the read loop.
OnLineStopsOnMalformed(c, line) ==
  IF ~StartsWithData(line) THEN c
  ELSE LET dataStr == DataStr(line)
       IN IF dataStr = <<Tok("[DONE]")>> THEN [c EXCEPT !.q.done = TRUE]
          ELSE IF ~ParseOk(dataStr) THEN [c EXCEPT !.q.done = TRUE]
          ELSE LET data == JsonParse(dataStr)
               IN IF data.type = "heartbeat" THEN c
                  ELSE IF data.type = "done" THEN [c EXCEPT !.q.done = TRUE]
                  ELSE IF data.content # <<>> THEN OnContent(c, data.content)
                  ELSE c

\* One pass of "for (const line of lines)": the try block on one line.
OnLine(c, line) ==
  IF ~StartsWithData(line) THEN c
  ELSE LET dataStr == DataStr(line)
       IN IF dataStr = <<Tok("[DONE]")>> THEN [c EXCEPT !.q.done = TRUE]
          ELSE IF ~ParseOk(dataStr) THEN c
          ELSE LET data == JsonParse(dataStr)
               IN IF data.type = "heartbeat" THEN c
                  ELSE IF data.type = "done" THEN [c EXCEPT !.q.done = TRUE]
                  ELSE IF data.content # <<>> THEN OnContent(c, data.content)
                  ELSE c

\* Whether the pass over line leaves the for loop (the two break statements).
Breaks(line) ==
  /\ StartsWithData(line)
  /\ \/ DataStr(line) = <<Tok("[DONE]")>>
     \/ ParseOk(DataStr(line)) /\ JsonParse(DataStr(line)).type = "done"

RECURSIVE OnLines(_, _)
OnLines(c, lines) ==
  IF lines = <<>> THEN c
  ELSE IF Breaks(Head(lines)) THEN OnLine(c, Head(lines))
  ELSE OnLines(OnLine(c, Head(lines)), Tail(lines))

\* "if (value) { ... }" for one chunk read from the body.
OnChunk(c, chunk) == OnLines(c, Split(chunk))

RECURSIVE CompleteFrom(_, _)
\* "Complete all remaining steps": the for loop over stepOrder from index n.
CompleteFrom(c, n) ==
  IF n > Len(stepOrder) THEN c
  ELSE CompleteFrom(
         completeStep(IF stepOrder[n] \notin c.q.activatedSteps
                        THEN activateStep(c, stepOrder[n]) ELSE c,
                      stepOrder[n]),
         n + 1)

\* ------------------------------------------------------------------ state

VARIABLES
  messages,          \* useState<Message[]>
  inputValue,        \* useState("")
  isLoading,         \* useState(false)
  currentSessionId,  \* useState<string | null>
  user,              \* useAuth().user is set
  now,               \* Date.now()
  chat_messages,     \* the rows of table chat_messages, in creation order
  chat_sessions,     \* the number of rows of table chat_sessions (ids 1..n)
  channel,           \* the session whose realtime channel is subscribed
  events,            \* INSERT events of the channel not yet delivered (row numbers)
  req,               \* the processMessage calls: pc and local variables
  load               \* the session a loadSession call is fetching, or NULL

vars == <<messages, inputValue, isLoading, currentSessionId, user, now,
          chat_messages, chat_sessions, channel, events, req, load>>

Inputs == {<<>>, <<"q">>}

\* The component is mounted with a user: the user has no session yet, or
\* has one session without messages, which the mount effect has loaded.
Init ==
  /\ messages = <<>>
  /\ inputValue = <<>>
  /\ isLoading = FALSE
  /\ chat_sessions \in {0, 1}
  /\ currentSessionId = chat_sessions
  /\ channel = chat_sessions
  /\ user = TRUE
  /\ now = 1
  /\ chat_messages = <<>>
  /\ events = {}
  /\ req = [r \in Reqs |-> IdleReq]
  /\ load = NULL

\* The context in which a block of call r runs, and its commit.
Ctx(r) ==
  [msgs |-> messages, q |-> req[r], now |-> now, isLoading |-> isLoading,
   inputValue |-> inputValue]

Commit(r, c) ==
  /\ messages' = c.msgs
  /\ isLoading' = c.isLoading
  /\ inputValue' = c.inputValue
  /\ req' = [req EXCEPT ![r] = c.q]

\* The call saveMessage(sessionId, content, sender) up to its first await.
CallSave(c, content, sender, pc) ==
  [c EXCEPT !.q.saved = Append(@, [content |-> content, sender |-> sender]),
            !.q.dbId = NoId,
            !.q.pc = pc]

\* setIsLoading(true), the AI placeholder, activateStep("sections"), fetch.
PlaceholderBlock(c) ==
  LET aiTempId == TimeId(c.now + 1)
      aiPlaceholder == Message(aiTempId, NoId, <<>>, "ai", getInitialSteps, "true")
      c1 == [c EXCEPT !.isLoading = TRUE,
                      !.q.aiTempId = aiTempId,
                      !.msgs = Append(@, aiPlaceholder)]
      c2 == activateStep(c1, "sections")
  IN [c2 EXCEPT !.q.currentStepIndex = 0, !.q.charCount = 0,
                !.q.stepInterval = FALSE, !.q.asked = TRUE, !.q.pc = "fetching"]

\* "Add user message to UI" up to the await of saveMessage; a regeneration
\* goes straight on to the placeholder.
UserBlock(c) ==
  IF ~c.q.isRegeneration
    THEN LET tempId == TimeId(c.now)
             newMsg == Message(tempId, NoId, c.q.messageContent, "user", <<>>, "undefined")
         IN CallSave([c EXCEPT !.inputValue = <<>>,
                               !.q.tempId = tempId,
                               !.msgs = Append(@, newMsg)],
                     c.q.messageContent, "user", "savingUser")
    ELSE PlaceholderBlock(c)

\* A catch block that also fails the steps that never started.
CatchBlockFailsPending(c) ==
  LET Fail(m) ==
        [m EXCEPT !.content = errContent,
                  !.isStreaming = "false",
                  !.processSteps =
                     [k \in 1..Len(m.processSteps) |->
                        IF m.processSteps[k].status \in {"running", "pending"}
                          THEN [m.processSteps[k] EXCEPT !.status = "error"]
                          ELSE m.processSteps[k]]]
  IN CallSave([c EXCEPT !.q.stepInterval = FALSE,
                        !.q.outcome = "caught",
                        !.msgs = MapById(c.msgs, c.q.aiTempId, Fail)],
              errContent, "ai", "savingErr")

\* A catch block that marks every step as failed, whatever its status.
CatchBlockFailsAll(c) ==
  LET Fail(m) ==
        [m EXCEPT !.content = errContent,
                  !.isStreaming = "false",
                  !.processSteps =
                     [k \in 1..Len(m.processSteps) |->
                        [m.processSteps[k] EXCEPT !.status = "error"]]]
  IN CallSave([c EXCEPT !.q.stepInterval = FALSE,
                        !.q.outcome = "caught",
                        !.msgs = MapById(c.msgs, c.q.aiTempId, Fail)],
              errContent, "ai", "savingErr")

\* A catch block without clearInterval.
CatchBlockKeepsTimer(c) ==
  LET Fail(m) ==
        [m EXCEPT !.content = errContent,
                  !.isStreaming = "false",
                  !.processSteps =
                     [k \in 1..Len(m.processSteps) |->
                        IF m.processSteps[k].status = "running"
                          THEN [m.processSteps[k] EXCEPT !.status = "error"]
                          ELSE m.processSteps[k]]]
  IN CallSave([c EXCEPT !.q.outcome = "caught",
                        !.msgs = MapById(c.msgs, c.q.aiTempId, Fail)],
              errContent, "ai", "savingErr")

\* The catch block of processMessage up to the await of saveMessage.
CatchBlock(c) ==
  LET Fail(m) ==
        [m EXCEPT !.content = errContent,
                  !.isStreaming = "false",
                  !.processSteps =
                     [k \in 1..Len(m.processSteps) |->
                        IF m.processSteps[k].status = "running"
                          THEN [m.processSteps[k] EXCEPT !.status = "error"]
                          ELSE m.processSteps[k]]]
  IN CallSave([c EXCEPT !.q.stepInterval = FALSE,
                        !.q.outcome = "caught",
                        !.msgs = MapById(c.msgs, c.q.aiTempId, Fail)],
              errContent, "ai", "savingErr")

\* An end of the read loop that leaves the interval running.
AfterLoopKeepsTimer(c) ==
  LET c1 == CompleteFrom(c, 1)
      Stop(m) == [m EXCEPT !.isStreaming = "false"]
      c2 == [c1 EXCEPT !.msgs = MapById(c1.msgs, c1.q.aiTempId, Stop)]
  IN IF c2.q.fullContent = <<>>
       THEN [c2 EXCEPT !.q.pc = "fallback"]
       ELSE CallSave(c2, c2.q.fullContent, "ai", "savingAi")

\* An end of the read loop that leaves the remaining steps as they are.
AfterLoopKeepsSteps(c) ==
  LET c1 == [c EXCEPT !.q.stepInterval = FALSE]
      Stop(m) == [m EXCEPT !.isStreaming = "false"]
      c2 == [c1 EXCEPT !.msgs = MapById(c1.msgs, c1.q.aiTempId, Stop)]
  IN IF c2.q.fullContent = <<>>
       THEN [c2 EXCEPT !.q.pc = "fallback"]
       ELSE CallSave(c2, c2.q.fullContent, "ai", "savingAi")

\* From the end of the read loop to the next await: clearInterval, the
\* remaining steps, isStreaming, then response.text() or saveMessage.
AfterLoop(c) ==
  LET c1 == CompleteFrom([c EXCEPT !.q.stepInterval = FALSE], 1)
      Stop(m) == [m EXCEPT !.isStreaming = "false"]
      c2 == [c1 EXCEPT !.msgs = MapById(c1.msgs, c1.q.aiTempId, Stop)]
  IN IF c2.q.fullContent = <<>>
       THEN [c2 EXCEPT !.q.pc = "fallback"]
       ELSE CallSave(c2, c2.q.fullContent, "ai", "savingAi")

\* ---------------------------------------------------------------- actions

Env == <<user, now, chat_messages, chat_sessions>>
Realtime == <<channel, events>>

\* An effect on [currentSessionId] without the cleanup: the INSERT events of
\* the previous channel are still delivered.
SetCurrentSessionIdKeepsChannel(s) ==
  /\ currentSessionId' = s
  /\ channel' = s
  /\ events' = events

\* The effect on [currentSessionId]: the cleanup removes the channel of the
\* previous session, then the channel of the new one is subscribed.
SetCurrentSessionId(s) ==
  /\ currentSessionId' = s
  /\ channel' = s
  /\ events' = IF s = channel THEN events ELSE {}

\* The call slots are taken in order.
Free(r) == req[r].pc = "idle" /\ \A k \in Reqs : k < r => req[k].pc # "idle"

\* processMessage from its call to the await of the usage check; msgs is the
\* list as the calling handler leaves it, before records the list that the
\* handler found.
Call(r, messageContent, isRegeneration, msgs) ==
  /\ Free(r)
  /\ messages' = msgs
  /\ req' = [req EXCEPT ![r] =
       [IdleReq EXCEPT !.pc = IF user THEN "usage" ELSE "returned",
                       !.outcome = IF user THEN "none" ELSE "unauthenticated",
                       !.messageContent = messageContent,
                       !.isRegeneration = isRegeneration,
                       !.closureSessionId = currentSessionId,
                       !.closureEmpty = (Len(messages) = 0),
                       !.before = messages]]

\* onChange of the textarea (disabled while isLoading or without a user).
SetInputValue(v) ==
  /\ ~isLoading /\ user
  /\ v # inputValue
  /\ inputValue' = v
  /\ UNCHANGED <<load, messages, isLoading, currentSessionId, Env, Realtime, req>>

\* handleSendMessage, from the send button or the Enter key.
handleSendMessage(r) ==
  /\ ~isLoading /\ user
  /\ Trim(inputValue) # <<>>
  /\ Call(r, inputValue, FALSE, messages)
  /\ UNCHANGED <<load, inputValue, isLoading, currentSessionId, Env, Realtime>>

\* A handleRegenerate that leaves the last message in the list.
handleRegenerateKeeps(r) ==
  /\ messages # <<>>
  /\ LET last == messages[Len(messages)]
     IN /\ last.sender = "ai" /\ last.content # <<>> /\ last.isStreaming # "true"
        /\ ~isLoading
        /\ \E i \in 1..Len(messages) :
             /\ messages[i].sender = "user"
             /\ \A k \in (i + 1)..Len(messages) : messages[k].sender # "user"
             /\ Call(r, messages[i].content, TRUE, messages)
  /\ UNCHANGED <<load, inputValue, isLoading, currentSessionId, Env, Realtime>>

\* handleRegenerate, from the button under the last message (an AI message
\* with content that is not streaming, shown while nothing is loading).
handleRegenerate(r) ==
  /\ messages # <<>>
  /\ LET last == messages[Len(messages)]
     IN /\ last.sender = "ai" /\ last.content # <<>> /\ last.isStreaming # "true"
        /\ ~isLoading
        /\ \E i \in 1..Len(messages) :
             /\ messages[i].sender = "user"
             /\ \A k \in (i + 1)..Len(messages) : messages[k].sender # "user"
             /\ Call(r, messages[i].content, TRUE,
                     SubSeq(messages, 1, Len(messages) - 1))
  /\ UNCHANGED <<load, inputValue, isLoading, currentSessionId, Env, Realtime>>

\* A usage guard that returns after setIsLoading(true).
UsageBlockedLoading(r, why) ==
  /\ req[r].pc = "usage"
  /\ req' = [req EXCEPT ![r].pc = "returned", ![r].outcome = why]
  /\ isLoading' = TRUE
  /\ UNCHANGED <<load, messages, inputValue, currentSessionId, Env, Realtime>>

\* The usage check fails or denies: processMessage returns.
UsageBlocked(r, why) ==
  /\ req[r].pc = "usage"
  /\ req' = [req EXCEPT ![r].pc = "returned", ![r].outcome = why]
  /\ UNCHANGED <<load, messages, inputValue, isLoading, currentSessionId, Env, Realtime>>

\* The usage check allows the send and a session is active.
UsageAllowed(r) ==
  /\ req[r].pc = "usage"
  /\ req[r].closureSessionId # NULL
  /\ Commit(r, UserBlock([Ctx(r) EXCEPT !.q.sessionId = req[r].closureSessionId]))
  /\ UNCHANGED <<load, currentSessionId, Env, Realtime>>

\* The usage check allows the send and no session is active: createNewSession.
UsageAllowedNoSession(r) ==
  /\ req[r].pc = "usage"
  /\ req[r].closureSessionId = NULL
  /\ req' = [req EXCEPT ![r].pc = "creating"]
  /\ UNCHANGED <<load, messages, inputValue, isLoading, currentSessionId, Env, Realtime>>

\* createNewSession returns null.
SessionFailed(r) ==
  /\ req[r].pc = "creating"
  /\ req' = [req EXCEPT ![r].pc = "returned", ![r].outcome = "nosession"]
  /\ UNCHANGED <<load, messages, inputValue, isLoading, currentSessionId, Env, Realtime>>

\* createNewSession returns the id of the inserted session.
SessionCreated(r) ==
  /\ req[r].pc = "creating"
  /\ chat_sessions < MaxSessions
  /\ chat_sessions' = chat_sessions + 1
  /\ SetCurrentSessionId(chat_sessions + 1)
  /\ Commit(r, UserBlock([Ctx(r) EXCEPT !.q.sessionId = chat_sessions + 1]))
  /\ UNCHANGED <<load, user, now, chat_messages>>

\* The insert of saveMessage: the row is stored and pushed to the subscribed
\* channel of its session, or the insert fails and saveMessage returns null.
SaveInsert(r, ok) ==
  /\ req[r].pc \in {"savingUser", "savingAi", "savingErr"}
  /\ LET arg == req[r].saved[Len(req[r].saved)]
         n == Len(chat_messages) + 1
         pc == CASE req[r].pc = "savingUser" -> "savedUser"
                 [] req[r].pc = "savingAi" -> "savedAi"
                 [] OTHER -> "savedErr"
     IN IF ok
          THEN /\ n <= MaxRows
               /\ chat_messages' = Append(chat_messages,
                    [id |-> RowId(n), session_id |-> req[r].sessionId,
                     content |-> arg.content, sender |-> arg.sender])
               /\ events' = IF channel = req[r].sessionId
                              THEN events \cup {n} ELSE events
               /\ req' = [req EXCEPT ![r].pc = pc, ![r].dbId = RowId(n)]
          ELSE /\ req' = [req EXCEPT ![r].pc = pc, ![r].dbId = NoId]
               /\ UNCHANGED <<load, chat_messages, events>>
  /\ UNCHANGED <<load, messages, inputValue, isLoading, currentSessionId, user, now,
                 chat_sessions, channel>>

\* The db_id backfill of the message id.
Backfill(msgs, id, dbId) ==
  LET Set(m) == [m EXCEPT !.db_id = dbId]
  IN IF dbId # NoId THEN MapById(msgs, id, Set) ELSE msgs

\* A send that gives up when saveMessage of the user message returned null.
AfterUserSaveStops(r) ==
  /\ req[r].pc = "savedUser"
  /\ LET c == [Ctx(r) EXCEPT !.msgs = Backfill(messages, req[r].tempId, req[r].dbId)]
     IN Commit(r, IF req[r].dbId = NoId
                    THEN [c EXCEPT !.q.pc = "returned", !.q.outcome = "nosave"]
                  ELSE IF c.q.closureEmpty THEN [c EXCEPT !.q.pc = "titling"]
                  ELSE PlaceholderBlock(c))
  /\ UNCHANGED <<load, currentSessionId, Env, Realtime>>

\* saveMessage of the user message has returned.
AfterUserSave(r) ==
  /\ req[r].pc = "savedUser"
  /\ LET c == [Ctx(r) EXCEPT !.msgs = Backfill(messages, req[r].tempId, req[r].dbId)]
     IN Commit(r, IF c.q.closureEmpty THEN [c EXCEPT !.q.pc = "titling"]
                  ELSE PlaceholderBlock(c))
  /\ UNCHANGED <<load, currentSessionId, Env, Realtime>>

\* updateSessionTitle has returned.
AfterTitle(r) ==
  /\ req[r].pc = "titling"
  /\ Commit(r, PlaceholderBlock(Ctx(r)))
  /\ UNCHANGED <<load, currentSessionId, Env, Realtime>>

\* fetch rejects, or the response is not ok or has no body.
FetchFails(r) ==
  /\ req[r].pc = "fetching"
  /\ Commit(r, CatchBlock(Ctx(r)))
  /\ UNCHANGED <<load, currentSessionId, Env, Realtime>>

\* fetch resolves with a body that carries the records wire.
FetchResponds(r, wire) ==
  /\ req[r].pc = "fetching"
  /\ req' = [req EXCEPT ![r].pc = "reading", ![r].wire = wire,
                        ![r].body = EncodeAll(wire), ![r].fullContent = <<>>,
                        ![r].done = FALSE, ![r].responseStarted = FALSE,
                        ![r].stepInterval = TRUE]
  /\ UNCHANGED <<load, messages, inputValue, isLoading, currentSessionId, Env, Realtime>>

\* One tick of the interval.
StepInterval(r) ==
  /\ req[r].stepInterval
  /\ Commit(r, StepIntervalCallback(Ctx(r)))
  /\ UNCHANGED <<load, currentSessionId, Env, Realtime>>

\* reader.read() resolves with the next n tokens of the body.
Read(r, n) ==
  /\ req[r].pc = "reading"
  /\ n \in 1..Len(req[r].body)
  /\ LET chunk == SubSeq(req[r].body, 1, n)
         c == OnChunk([Ctx(r) EXCEPT !.q.body = SubSeq(@, n + 1, Len(@))], chunk)
     IN Commit(r, IF c.q.done THEN AfterLoop(c) ELSE c)
  /\ UNCHANGED <<load, currentSessionId, Env, Realtime>>

\* reader.read() resolves with done: the body has ended.
ReadEnd(r) ==
  /\ req[r].pc = "reading"
  /\ req[r].body = <<>>
  /\ Commit(r, AfterLoop([Ctx(r) EXCEPT !.q.done = TRUE]))
  /\ UNCHANGED <<load, currentSessionId, Env, Realtime>>

\* reader.read() rejects.
ReadThrows(r) ==
  /\ req[r].pc = "reading"
  /\ Commit(r, CatchBlock(Ctx(r)))
  /\ UNCHANGED <<load, currentSessionId, Env, Realtime>>

FallbackBodies ==
  {[answer |-> <<"Hello">>, content |-> <<>>],
   [answer |-> <<>>, content |-> <<"q">>],
   [answer |-> <<>>, content |-> <<>>]}

\* "Fallback if no content": response.text() and JSON.parse give data.
FallbackParsed(r, data) ==
  /\ req[r].pc = "fallback"
  /\ LET full == IF data.answer # <<>> THEN data.answer
                 ELSE IF data.content # <<>> THEN data.content ELSE defaultAnswer
         SetContent(m) == [m EXCEPT !.content = full]
         c == [Ctx(r) EXCEPT !.q.fullContent = full,
                             !.msgs = MapById(messages, req[r].aiTempId, SetContent)]
     IN Commit(r, CallSave(c, full, "ai", "savingAi"))
  /\ UNCHANGED <<load, currentSessionId, Env, Realtime>>

\* "Fallback if no content": response.text() or JSON.parse throws.
FallbackThrows(r) ==
  /\ req[r].pc = "fallback"
  /\ Commit(r, CallSave([Ctx(r) EXCEPT !.q.fullContent = parseFailContent],
                        parseFailContent, "ai", "savingAi"))
  /\ UNCHANGED <<load, currentSessionId, Env, Realtime>>

\* saveMessage of the final content has returned; finally.
AfterAiSave(r) ==
  /\ req[r].pc = "savedAi"
  /\ Commit(r, [Ctx(r) EXCEPT
                  !.msgs = Backfill(messages, req[r].aiTempId, req[r].dbId),
                  !.isLoading = FALSE,
                  !.q.pc = "returned", !.q.outcome = "persisted"])
  /\ UNCHANGED <<load, currentSessionId, Env, Realtime>>

\* saveMessage of the apology has returned; finally.
AfterErrSave(r) ==
  /\ req[r].pc = "savedErr"
  /\ Commit(r, [Ctx(r) EXCEPT !.isLoading = FALSE, !.q.pc = "returned"])
  /\ UNCHANGED <<load, currentSessionId, Env, Realtime>>

\* useAuth() gives no user any more: the user has signed out.
SignOut ==
  /\ user
  /\ user' = FALSE
  /\ UNCHANGED <<load, messages, inputValue, isLoading, currentSessionId, now,
                 chat_messages, chat_sessions, Realtime, req>>

RECURSIVE Loaded(_, _)
\* data.map(...) of loadSession on the rows of session s, which the query
\* returns in creation order.
Loaded(rows, s) ==
  IF rows = <<>> THEN <<>>
  ELSE (IF Head(rows).session_id = s
          THEN <<Message(Head(rows).id, Head(rows).id, Head(rows).content,
                         Head(rows).sender, <<>>, "undefined")>>
          ELSE <<>>) \o Loaded(Tail(rows), s)

\* The user signs in on a page whose URL names session s: the effect on
\* [user] calls loadSession(s), which runs to the await of its query.
SignIn(s) ==
  /\ ~user
  /\ s \in 1..chat_sessions
  /\ load = NULL
  /\ user' = TRUE
  /\ load' = s
  /\ isLoading' = TRUE
  /\ UNCHANGED <<messages, inputValue, currentSessionId, now, chat_messages,
                 chat_sessions, Realtime, req>>

\* A loadSession that keeps the list when the session has no rows.
LoadOkKeepsEmpty ==
  /\ load # NULL
  /\ messages' = IF Loaded(chat_messages, load) = <<>> THEN messages
                 ELSE Loaded(chat_messages, load)
  /\ SetCurrentSessionId(load)
  /\ isLoading' = FALSE
  /\ load' = NULL
  /\ UNCHANGED <<inputValue, Env, req>>

\* The query of loadSession returns the rows of the session: the list is
\* replaced, the session becomes the active one; finally.
LoadOk ==
  /\ load # NULL
  /\ messages' = Loaded(chat_messages, load)
  /\ SetCurrentSessionId(load)
  /\ isLoading' = FALSE
  /\ load' = NULL
  /\ UNCHANGED <<inputValue, Env, req>>

\* The query of loadSession fails: the toast; finally.
LoadFails ==
  /\ load # NULL
  /\ isLoading' = FALSE
  /\ load' = NULL
  /\ UNCHANGED <<messages, inputValue, currentSessionId, Env, Realtime, req>>

\* The handler of the newChat event.
NewChat ==
  /\ messages' = <<>>
  /\ SetCurrentSessionId(NULL)
  /\ UNCHANGED <<load, inputValue, isLoading, Env, req>>

\* An INSERT handler without the db_id test.
OnInsertAlways(prev, newMsg) ==
  Append(prev, Message(newMsg.id, newMsg.id, newMsg.content, newMsg.sender,
                       <<>>, "undefined"))

\* The INSERT handler of the channel on the row newMsg.
OnInsert(prev, newMsg) ==
  IF \E i \in 1..Len(prev) : prev[i].db_id = newMsg.id THEN prev
  ELSE Append(prev, Message(newMsg.id, newMsg.id, newMsg.content, newMsg.sender,
                            <<>>, "undefined"))

\* The channel delivers the INSERT of row n.
RealtimeInsert(n) ==
  /\ n \in events
  /\ events' = events \ {n}
  /\ messages' = OnInsert(messages, chat_messages[n])
  /\ UNCHANGED <<load, inputValue, isLoading, currentSessionId, Env, channel, req>>

\* Another client of the user inserts a row into session s.
ExternalInsert(s, sender) ==
  /\ s \in 1..chat_sessions
  /\ Len(chat_messages) < MaxRows
  /\ chat_messages' = Append(chat_messages,
       [id |-> RowId(Len(chat_messages) + 1), session_id |-> s,
        content |-> <<"q">>, sender |-> sender])
  /\ events' = IF channel = s THEN events \cup {Len(chat_messages) + 1} ELSE events
  /\ UNCHANGED <<load, messages, inputValue, isLoading, currentSessionId, user, now,
                 chat_sessions, channel, req>>

\* Time passes.
Tick ==
  /\ now < MaxClock
  /\ now' = now + 1
  /\ UNCHANGED <<load, messages, inputValue, isLoading, currentSessionId, user,
                 chat_messages, chat_sessions, Realtime, req>>

\* ---------------------------------------------------------- specifications

\* processMessage of call r from the usage check to the user message.
Guards(r) ==
  \/ \E why \in {"usageError", "denied"} : UsageBlocked(r, why)
  \/ UsageAllowed(r)
  \/ UsageAllowedNoSession(r)
  \/ SessionFailed(r)
  \/ SessionCreated(r)

\* The saveMessage calls of call r and what follows them.
Persist(r) ==
  \/ \E ok \in BOOLEAN : SaveInsert(r, ok)
  \/ AfterUserSave(r)
  \/ AfterTitle(r)
  \/ AfterAiSave(r)
  \/ AfterErrSave(r)

\* The request of call r and its read loop, on a response drawn from wires;
\* a read delivers the whole remaining body when whole, any part of it otherwise.
Stream(r, wires, whole) ==
  \/ FetchFails(r)
  \/ \E wire \in wires : FetchResponds(r, wire)
  \/ StepInterval(r)
  \/ \E n \in 1..Len(req[r].body) : (whole => n = Len(req[r].body)) /\ Read(r, n)
  \/ ReadEnd(r)
  \/ ReadThrows(r)

\* The fallback of call r for a response without content.
Fallback(r) ==
  \/ \E data \in FallbackBodies : FallbackParsed(r, data)
  \/ FallbackThrows(r)

\* A response with content and one without.
Wires == {<<ContentRec(<<"Hello">>), SentinelRec>>, <<HeartbeatRec>>}

\* One send with the collaborators of the component: the tables, the
\* realtime channel, other clients of the user, the newChat event.
Next ==
  \/ \E v \in Inputs : SetInputValue(v)
  \/ handleSendMessage(1)
  \/ Guards(1)
  \/ Persist(1)
  \/ Stream(1, Wires, TRUE)
  \/ Fallback(1)
  \/ NewChat
  \/ \E n \in 1..MaxRows : RealtimeInsert(n)
  \/ \E s \in 1..MaxSessions : ExternalInsert(s, "ai")

Spec == Init /\ [][Next]_vars

\* The responses of the ask endpoint in SpecTurn.
TurnWires ==
  {<<ContentRec(<<"Hello">>), ContentRec(<<" world">>), SentinelRec>>,
   <<ContentRec(<<"a199">>), ContentRec(<<"a">>)>>,
   <<ContentRec(<<"phase 2">>), MalformedRec, ContentRec(<<"a400">>), DoneRec>>,
   <<HeartbeatRec, CommentRec>>}

\* One send and its turn, on every response of TurnWires and every division
\* of the body into reads.
NextTurn ==
  \/ \E v \in Inputs : SetInputValue(v)
  \/ handleSendMessage(1)
  \/ Guards(1)
  \/ Persist(1)
  \/ Stream(1, TurnWires, FALSE)
  \/ Fallback(1)
  \/ Tick

SpecTurn == Init /\ [][NextTurn]_vars

\* Sends that overlap: handleSendMessage runs whenever the input is enabled.
NextSends ==
  \/ \E v \in Inputs : SetInputValue(v)
  \/ \E r \in Reqs : handleSendMessage(r)
  \/ \E r \in Reqs : Guards(r)
  \/ \E r \in Reqs : Persist(r)
  \/ \E r \in Reqs : Stream(r, {<<ContentRec(<<"Hello">>)>>}, TRUE)
  \/ Tick

SpecSends == Init /\ [][NextSends]_vars

\* The lexemes of the content fragments in SpecDetect.
DetectLexemes ==
  {"section", "searching", "Verified", "amendment", "landmark case", "\n"}

\* The content fragments of 1..MaxChunk lexemes.
Chunks == UNION {[1..n -> DetectLexemes] : n \in 1..MaxChunk}

\* One send whose response is one content fragment of Chunks, read whole.
NextDetect ==
  \/ \E v \in Inputs : SetInputValue(v)
  \/ handleSendMessage(1)
  \/ Guards(1)
  \/ Persist(1)
  \/ Stream(1, {<<ContentRec(chunk)>> : chunk \in Chunks}, TRUE)

SpecDetect == Init /\ [][NextDetect]_vars

\* A send and then regenerations of its answer, with the newChat event and
\* the sign-out; responses are read whole.
NextRegen ==
  \/ \E v \in Inputs : SetInputValue(v)
  \/ handleSendMessage(1)
  \/ \E r \in Reqs : handleRegenerate(r)
  \/ \E r \in Reqs : Guards(r)
  \/ \E r \in Reqs : Persist(r)
  \/ \E r \in Reqs : Stream(r, {<<ContentRec(<<"Hello">>)>>}, TRUE)
  \/ NewChat
  \/ SignOut

SpecRegen == Init /\ [][NextRegen]_vars

\* One send, the sign-out and the sign-in with its loadSession, rows of
\* other clients, the newChat event.
NextLoad ==
  \/ \E v \in Inputs : SetInputValue(v)
  \/ handleSendMessage(1)
  \/ Guards(1)
  \/ Persist(1)
  \/ Stream(1, {<<ContentRec(<<"Hello">>)>>}, TRUE)
  \/ SignOut
  \/ \E s \in 1..MaxSessions : SignIn(s)
  \/ LoadOk
  \/ LoadFails
  \/ NewChat
  \/ \E s \in 1..MaxSessions : ExternalInsert(s, "ai")

SpecLoad == Init /\ [][NextLoad]_vars

\* ------------------------------------------------------------------ claims

\* The messages of the list that an update mapped by id reaches.
WithId(msgs, id) == {i \in 1..Len(msgs) : msgs[i].id = id}

Statuses(m) == {m.processSteps[k].status : k \in 1..Len(m.processSteps)}

RECURSIVE Carried(_)
\* The content fields of the content records of a stream before its
\* terminator (done record or [DONE] sentinel), concatenated in order.
Carried(recs) ==
  IF recs = <<>> THEN <<>>
  ELSE LET h == Head(recs)
       IN IF h.kind = "sentinel" \/ (h.kind = "json" /\ h.json.type = "done")
            THEN <<>>
            ELSE (IF h.kind = "json" /\ h.json.type # "heartbeat"
                    THEN h.json.content ELSE <<>>) \o Carried(Tail(recs))

\* C1: when a stream that carried content has ended normally, the content
\* that processMessage hands to saveMessage for the assistant turn is the
\* concatenation of the carried content fields, however the body was
\* divided into reads.
C1_PersistedIsConcatenation ==
  \A r \in Reqs :
    (req[r].pc \in {"savingAi", "savedAi"} /\ Carried(req[r].wire) # <<>>)
      => req[r].saved[Len(req[r].saved)] =
           [content |-> Carried(req[r].wire), sender |-> "ai"]

\* C2: once the read loop has processed the first content record, writing is
\* running and every step before it is done.
C2_FirstContentCompletesPrior ==
  \A r \in Reqs :
    (req[r].pc = "reading" /\ req[r].responseStarted)
      => \A i \in WithId(messages, req[r].aiTempId) :
           messages[i].processSteps # <<>>
             => /\ messages[i].processSteps[5].status = "running"
                /\ \A k \in 1..4 : messages[i].processSteps[k].status = "done"

\* The last step of stepOrder whose threshold the length has reached.
ReachedIndex(len) ==
  CHOOSE i \in 0..(Len(thresholds) - 1) :
    /\ thresholds[i + 1] <= len
    /\ \A k \in 0..(Len(thresholds) - 1) : thresholds[k + 1] <= len => k <= i

\* C3: while the stream is read the current step is never ahead of the
\* thresholds that the accumulated length has reached: below 200 characters
\* the tracker is at sections, from 200 on at most at amendments, and so on.
C3_StepFollowsThresholds ==
  \A r \in Reqs :
    req[r].pc = "reading"
      => req[r].currentStepIndex <= ReachedIndex(TextLen(req[r].fullContent))

\* C4 as stated: an assistant message with processSteps whose isStreaming is
\* false has no pending step.
C4_NoPendingOnceNotStreaming ==
  \A i \in 1..Len(messages) :
    (messages[i].sender = "ai" /\ messages[i].processSteps # <<>>
       /\ messages[i].isStreaming = "false")
      => "pending" \notin Statuses(messages[i])

\* C4 as amended: the block that ends the read loop normally leaves the
\* turn's message with isStreaming false and all of its steps done; the catch
\* block also sets isStreaming to false and leaves every pending step pending.
C4_NormalEndAllDone ==
  [][\A r \in Reqs :
       /\ (req[r].pc = "reading" /\ req'[r].pc \in {"fallback", "savingAi"})
            => \A i \in WithId(messages', req[r].aiTempId) :
                 messages'[i].processSteps # <<>>
                   => /\ messages'[i].isStreaming = "false"
                      /\ Statuses(messages'[i]) = {"done"}
       /\ (req[r].pc \in {"fetching", "reading"} /\ req'[r].pc = "savingErr")
            => \A i \in WithId(messages, req[r].aiTempId) :
                 /\ messages'[i].isStreaming = "false"
                 /\ \A k \in 1..Len(messages[i].processSteps) :
                      messages[i].processSteps[k].status = "pending"
                        => messages'[i].processSteps[k].status = "pending"]_vars

\* A stream has ended normally on a turn of which steps were still pending.
C4_Witness ==
  \E r \in Reqs :
    /\ req[r].pc = "savingAi"
    /\ req[r].activatedSteps = {"sections", "amendments", "landmark", "recent", "writing"}
    /\ \E i \in WithId(messages, req[r].aiTempId) :
         /\ messages[i].isStreaming = "false"
         /\ Statuses(messages[i]) = {"done"}

\* C5: an assistant turn whose stream has not failed has at most one running step.
C5_AtMostOneRunning ==
  \A i \in 1..Len(messages) :
    (messages[i].sender = "ai" /\ messages[i].processSteps # <<>>
       /\ "error" \notin Statuses(messages[i]))
      => Cardinality({k \in 1..Len(messages[i].processSteps) :
                        messages[i].processSteps[k].status = "running"}) <= 1

\* C6: the catch block replaces the content of the placeholder by the
\* apology, turns its running steps into error, keeps its other steps, sets
\* isStreaming to false and calls saveMessage with the apology as an 'ai'
\* message; that call is the only 'ai' save of the turn.
C6_CatchBlock ==
  /\ [][\A r \in Reqs :
          (req[r].pc \in {"fetching", "reading"} /\ req'[r].pc = "savingErr")
            => /\ Len(messages') = Len(messages)
               /\ \A i \in WithId(messages, req[r].aiTempId) :
                    /\ messages'[i].content = errContent
                    /\ messages'[i].isStreaming = "false"
                    /\ \A k \in 1..Len(messages[i].processSteps) :
                         messages'[i].processSteps[k].status =
                           IF messages[i].processSteps[k].status = "running"
                             THEN "error" ELSE messages[i].processSteps[k].status
               /\ req'[r].saved =
                    Append(req[r].saved, [content |-> errContent, sender |-> "ai"])]_vars
  /\ [](\A r \in Reqs :
          req[r].outcome = "caught"
            => Cardinality({n \in 1..Len(req[r].saved) :
                              req[r].saved[n].sender = "ai"}) = 1)

\* A read has thrown after the first content record: the placeholder holds
\* the apology, a done step, an error step and pending steps.
C6_Witness ==
  \E r \in Reqs :
    /\ req[r].pc = "savingErr"
    /\ \E i \in WithId(messages, req[r].aiTempId) :
         /\ messages[i].content = errContent
         /\ Statuses(messages[i]) = {"done", "error", "pending"}

\* The message that the INSERT handler makes of a row.
Pushed(row) == Message(row.id, row.id, row.content, row.sender, <<>>, "undefined")

\* C7: the delivery of an INSERT leaves the list unchanged when a message
\* carries the row's id as db_id, and otherwise appends one message with id
\* and db_id equal to the row's id; handling the same row again changes nothing.
C7_InsertHandler ==
  /\ [][\A n \in events :
          (events' = events \ {n} /\ channel' = channel)
            => messages' =
                 IF \E i \in 1..Len(messages) : messages[i].db_id = chat_messages[n].id
                   THEN messages
                   ELSE Append(messages, Pushed(chat_messages[n]))]_vars
  /\ [](\A n \in 1..Len(chat_messages) :
          OnInsert(OnInsert(messages, chat_messages[n]), chat_messages[n])
            = OnInsert(messages, chat_messages[n]))

\* The channel has delivered a row that was not in the list and holds the
\* INSERT of a row that is in the list.
C7_Witness ==
  /\ \E i \in 1..Len(messages) :
       messages[i].id = messages[i].db_id /\ messages[i].id[1] = "row"
  /\ \E n \in events : \E i \in 1..Len(messages) : messages[i].db_id = chat_messages[n].id

\* The messages that stand for the row n: those that carry its id as db_id,
\* and the optimistic message of the call that inserted it.
EntriesOf(n) ==
  {i \in 1..Len(messages) : messages[i].db_id = RowId(n)}
  \cup {i \in 1..Len(messages) :
          \E r \in Reqs :
            /\ req[r].dbId = RowId(n)
            /\ req[r].pc \in {"savedUser", "savedAi", "savedErr", "returned"}
            /\ messages[i].id = IF req[r].pc = "savedUser"
                                  THEN req[r].tempId ELSE req[r].aiTempId}

\* C8: the list never holds two entries for a row that the client inserted.
C8_OneEntryPerOwnRow ==
  \A n \in 1..Len(chat_messages) : Cardinality(EntriesOf(n)) <= 1

\* C9: from the placeholder on, the list holds exactly one assistant message
\* with the placeholder's id, and it carries the id that saveMessage
\* returned for the final content.
C9_OnePlaceholder ==
  \A r \in Reqs :
    /\ req[r].pc \in {"fetching", "reading", "fallback", "savingAi", "savedAi", "savingErr",
                      "savedErr"}
         => Cardinality({i \in WithId(messages, req[r].aiTempId) :
                           messages[i].sender = "ai"}) = 1
    /\ (req[r].pc = "returned" /\ req[r].outcome = "persisted" /\ req[r].dbId # NoId)
         => \E i \in WithId(messages, req[r].aiTempId) : messages[i].db_id = req[r].dbId

\* C10: no two messages of the list have the same id.
C10_IdsDistinct ==
  \A i, j \in 1..Len(messages) : i # j => messages[i].id # messages[j].id

\* C11: in every state of a turn, activateStep on a step that this turn has
\* activated changes nothing (list, start times, activated set), also when
\* the step is done and when the clock has advanced; a second call after a
\* first one, at a later time, changes nothing either.
C11_ActivateIdempotent ==
  \A r \in Reqs, stepId \in SignalIds :
    req[r].pc \in {"fetching", "reading"}
      => LET c == Ctx(r)
             later == [c EXCEPT !.now = now + 1]
             c1 == activateStep(c, stepId)
             c2 == activateStep([c1 EXCEPT !.now = now + 1], stepId)
         IN /\ c2 = [c1 EXCEPT !.now = now + 1]
            /\ stepId \in req[r].activatedSteps => activateStep(later, stepId) = later
            /\ \A i \in WithId(messages, req[r].aiTempId) :
                 \A k \in 1..Len(messages[i].processSteps) :
                   (messages[i].processSteps[k].id = stepId
                      /\ messages[i].processSteps[k].status = "done")
                     => activateStep(later, stepId).msgs = messages

\* The stream is read at a time after the activation of a running step,
\* and a step of the turn is done.
C11_Witness ==
  \E r \in Reqs :
    /\ req[r].pc = "reading"
    /\ \E i \in WithId(messages, req[r].aiTempId) :
         /\ \E k \in 1..Len(messages[i].processSteps) :
              /\ messages[i].processSteps[k].status = "running"
              /\ messages[i].processSteps[k].startedAt < now
         /\ "done" \in Statuses(messages[i])

\* The tokens that the step's read has taken from the body of call r.
Consumed(r) == SubSeq(req[r].body, 1, Len(req[r].body) - Len(req'[r].body))

IsMalformed(rec) == rec.kind = "malformed"

\* A line that carries the data marker and a payload that JSON.parse rejects
\* (a malformed record, or a piece of a record that a read has cut).
BadPayload(line) ==
  /\ StartsWithData(line)
  /\ DataStr(line) # <<Tok("[DONE]")>>
  /\ ~ParseOk(DataStr(line))

GoodLine(line) == ~BadPayload(line)

\* C12: a read with a line whose payload is not valid JSON leaves
\* processMessage where the same lines without that line leave it, for
\* every division of the body into reads: the content, the steps and the
\* end of the loop are those of the other lines, and the catch block is not
\* entered. A read of whole records with a malformed record among them
\* appends the content fields of the valid records before the terminator.
C12_MalformedSkipped ==
  [][\A r \in Reqs :
       (req[r].pc = "reading" /\ Len(req'[r].body) < Len(req[r].body))
         => LET lines == Split(Consumed(r))
                c0 == [Ctx(r) EXCEPT !.q.body = req'[r].body]
                c1 == OnLines(c0, SelectSeq(lines, GoodLine))
                c2 == IF c1.q.done THEN AfterLoop(c1) ELSE c1
            IN /\ (\E k \in 1..Len(lines) : BadPayload(lines[k]))
                    => /\ req'[r].pc \in {"reading", "savingAi", "fallback"}
                       /\ messages' = c2.msgs
                       /\ req'[r] = c2.q
               /\ \A i, j \in 1..Len(req[r].wire) :
                    (/\ i <= j
                     /\ Consumed(r) = EncodeAll(SubSeq(req[r].wire, i, j))
                     /\ \E k \in i..j : IsMalformed(req[r].wire[k]))
                      => req'[r].fullContent =
                           req[r].fullContent \o Carried(SubSeq(req[r].wire, i, j))]_vars

\* The stream with a malformed record between two content records has been
\* read to its done record and both fragments are the content.
C12_Witness ==
  \E r \in Reqs :
    /\ req[r].pc = "savingAi"
    /\ \E k \in 2..(Len(req[r].wire) - 1) :
         /\ IsMalformed(req[r].wire[k])
         /\ req[r].wire[k - 1].kind = "json" /\ req[r].wire[k + 1].kind = "json"
    /\ req[r].fullContent = <<"phase 2", "a400">>
    /\ \E i \in WithId(messages, req[r].aiTempId) :
         messages[i].content = <<"phase 2", "a400">>

HelloWorld == <<ContentRec(<<"Hello">>), ContentRec(<<" world">>), SentinelRec>>

\* C13: the step in which the read loop ends (done record, [DONE] sentinel or
\* end of stream) cancels the interval and leaves the turn's message with its
\* five steps done and isStreaming false; a read of whole records appends
\* the content fields they carry before a terminator; the records content
\* "Hello", content " world", [DONE] delivered whole give the final content
\* "Hello world".
C13_NormalTermination ==
  [][\A r \in Reqs :
       /\ (req[r].pc = "reading" /\ req'[r].pc \in {"fallback", "savingAi"})
            => /\ req'[r].done
               /\ ~req'[r].stepInterval
               /\ \E i \in WithId(messages', req[r].aiTempId) :
                    /\ messages'[i].isStreaming = "false"
                    /\ Len(messages'[i].processSteps) = 5
                    /\ \A k \in 1..5 : messages'[i].processSteps[k].status = "done"
                    /\ messages'[i].content = req'[r].fullContent
       /\ \A i, j \in 1..Len(req[r].wire) :
            (/\ req[r].pc = "reading" /\ ~req[r].done
             /\ i <= j
             /\ Len(req'[r].body) < Len(req[r].body)
             /\ Consumed(r) = EncodeAll(SubSeq(req[r].wire, i, j)))
              => req'[r].fullContent =
                   req[r].fullContent \o Carried(SubSeq(req[r].wire, i, j))
       /\ (/\ req[r].pc = "reading"
            /\ req[r].wire = HelloWorld
            /\ req[r].body = EncodeAll(HelloWorld)
            /\ req'[r].body = <<>>)
             => /\ req'[r].pc = "savingAi"
                /\ req'[r].fullContent = <<"Hello", " world">>
                /\ req'[r].saved[Len(req'[r].saved)] =
                     [content |-> <<"Hello", " world">>, sender |-> "ai"]]_vars

\* The loop has ended on the [DONE] sentinel of the stream Hello, world,
\* [DONE] with both fragments as content and the interval cancelled.
C13_Witness ==
  \E r \in Reqs :
    /\ req[r].pc = "savingAi"
    /\ req[r].wire = HelloWorld
    /\ req[r].done /\ ~req[r].stepInterval
    /\ req[r].fullContent = <<"Hello", " world">>
    /\ \E i \in WithId(messages, req[r].aiTempId) :
         Statuses(messages[i]) = {"done"} /\ messages[i].isStreaming = "false"

\* The ids of a sequence of step ids.
Ids(t) == {t[k] : k \in 1..Len(t)}

\* C14: for the content fragment C of the response, detectStepsFromChunk(C)
\* holds only ids of the six signals, holds the id of every signal whose
\* pattern matches C once and in the order of STEP_SIGNALS, holds no id whose
\* pattern does not match, and is empty when none matches; the read loop
\* activates exactly those steps besides sections and writing.
C14_DetectExact ==
  \A r \in Reqs :
    (req[r].pc = "reading" /\ Len(req[r].wire) = 1 /\ req[r].wire[1].kind = "json")
      => LET C == req[r].wire[1].json.content
             t == detectStepsFromChunk(C)
         IN /\ Ids(t) \subseteq {"sections", "amendments", "landmark", "recent",
                                  "principles", "writing"}
            /\ \A n \in 1..Len(STEP_SIGNALS) :
                 PatternTest(STEP_SIGNALS[n].pattern, C)
                   <=> STEP_SIGNALS[n].stepId \in Ids(t)
            /\ \A k, l \in 1..Len(t) :
                 k < l => \E m, n \in 1..Len(STEP_SIGNALS) :
                            /\ m < n
                            /\ t[k] = STEP_SIGNALS[m].stepId
                            /\ t[l] = STEP_SIGNALS[n].stepId
            /\ (\A n \in 1..Len(STEP_SIGNALS) : ~PatternTest(STEP_SIGNALS[n].pattern, C))
                 => t = <<>>
            /\ C = <<"section", "searching">> => t = <<"sections">>
            /\ C = <<"searching">> => t = <<>>
            /\ C = <<"section", "\n", "searching">> => t = <<>>
            /\ C = <<"Verified", "amendment", "section">> => t = <<"sections", "amendments">>
            /\ C = <<"landmark case", "searching">> => t = <<"landmark">>
            /\ C = <<"amendment", "section", "Verified">> => t = <<"amendments">>
            /\ req[r].responseStarted
                 => req[r].activatedSteps = {"sections", "writing"} \cup Ids(t)

\* The read loop has processed a fragment in which two signals match.
C14_Witness ==
  \E r \in Reqs :
    /\ req[r].pc = "reading" /\ req[r].responseStarted
    /\ req[r].wire = <<ContentRec(<<"Verified", "amendment", "section">>)>>
    /\ req[r].activatedSteps = {"sections", "amendments", "writing"}

\* What a step leaves alone when it has no effect outside the call: the
\* flags, the active session, the input and the two tables.
NoEffect ==
  /\ isLoading' = isLoading
  /\ currentSessionId' = currentSessionId
  /\ inputValue' = inputValue
  /\ chat_sessions' = chat_sessions
  /\ chat_messages' = chat_messages

\* C15: a processMessage call that ends at a guard (no user, usage denied,
\* usage check failed) has appended no message, created no session, called
\* neither saveMessage nor the ask endpoint, and none of its steps has
\* changed isLoading or currentSessionId.
C15_GuardsAbort ==
  /\ [][\A r \in Reqs :
          /\ (req[r].pc = "idle" /\ req'[r].pc \in {"usage", "returned"})
               => /\ NoEffect
                  /\ messages' = IF req'[r].isRegeneration
                                       /\ messages[Len(messages)].sender = "ai"
                                    THEN SubSeq(messages, 1, Len(messages) - 1)
                                    ELSE messages
                  /\ req'[r].pc = "returned" <=> ~user
          /\ (req[r].pc = "usage" /\ req'[r].pc = "returned")
               => NoEffect /\ messages' = messages]_vars
  /\ [](\A r \in Reqs :
          (req[r].pc = "returned"
             /\ req[r].outcome \in {"unauthenticated", "denied", "usageError"})
            => /\ req[r].saved = <<>>
               /\ ~req[r].asked
               /\ req[r].sessionId = NULL
               /\ req[r].tempId = NoId /\ req[r].aiTempId = NoId)

\* A call has returned at the usage guard while the list held messages, and
\* nothing is loading.
C15_Witness ==
  \E r \in Reqs :
    /\ req[r].pc = "returned"
    /\ req[r].outcome \in {"denied", "usageError"}
    /\ messages # <<>>
    /\ ~isLoading

\* The list as the handler that made call r left it.
HandlerLeft(r) ==
  IF req[r].isRegeneration
    THEN SubSeq(req[r].before, 1, Len(req[r].before) - 1) ELSE req[r].before

\* C16: when createNewSession fails, the call returns with the flags, the
\* active session, the input and the tables untouched, with no save and no
\* request made, and (nothing else having changed the list since the
\* handler ran) with the list that the handler found.
C16_NoPartialState ==
  /\ [][\A r \in Reqs :
          (req[r].pc = "creating" /\ req'[r].pc = "returned")
            => /\ NoEffect
               /\ messages = HandlerLeft(r) => messages' = req[r].before]_vars
  /\ [](\A r \in Reqs :
          (req[r].pc = "returned" /\ req[r].outcome = "nosession")
            => req[r].saved = <<>> /\ ~req[r].asked)

\* The content of the most recent user turn of a list (<<>> without one).
LastUserContent(msgs) ==
  LET users == {i \in 1..Len(msgs) : msgs[i].sender = "user"}
  IN IF users = {} THEN <<>>
     ELSE msgs[CHOOSE i \in users : \A k \in users : k <= i].content

RowsOf(s) == {n \in 1..Len(chat_messages) : chat_messages[n].session_id = s}
NthRowOf(s, i) ==
  CHOOSE n \in RowsOf(s) : Cardinality({m \in RowsOf(s) : m <= n}) = i

\* C18: the step that ends a loadSession(s) leaves isLoading false; when the
\* query succeeded, the list is the rows of session s in creation order,
\* each with id = db_id = the row's id, and s is the active session,
\* whatever the list held; when it failed, the list and the active session
\* are unchanged.
C18_LoadSession ==
  [][(load # NULL /\ load' = NULL)
       => /\ ~isLoading'
          /\ IF LoadFails
               THEN messages' = messages /\ currentSessionId' = currentSessionId
               ELSE /\ currentSessionId' = load
                    /\ Len(messages') = Cardinality(RowsOf(load))
                    /\ \A i \in 1..Len(messages') :
                         LET row == chat_messages[NthRowOf(load, i)]
                         IN /\ messages'[i].id = row.id
                            /\ messages'[i].db_id = row.id
                            /\ messages'[i].content = row.content
                            /\ messages'[i].sender = row.sender]_vars

\* A loadSession has replaced the list by the rows of the active session,
\* the user's own message among them under its row id.
C18_Witness ==
  /\ load = NULL /\ ~isLoading /\ currentSessionId # NULL
  /\ Len(messages) = Cardinality(RowsOf(currentSessionId))
  /\ \E i \in 1..Len(messages) :
       messages[i].sender = "user" /\ messages[i].id = messages[i].db_id

\* A newChat reset has happened since request r was called: the list and the
\* active session are empty although r found a list or a session, or has
\* appended a message of its own.
ResetSeen(r) ==
  /\ req[r].pc \notin {"idle", "returned"}
  /\ messages = <<>> /\ currentSessionId = NULL
  /\ \/ req[r].before # <<>>
     \/ req[r].closureSessionId # NULL
     \/ req[r].tempId # NoId
     \/ req[r].aiTempId # NoId

\* C19: once a newChat reset has emptied the list and the active session
\* under a request in flight, no step of that request changes the message
\* list or currentSessionId.
C19_ResetSilencesRequest ==
  [][\A r \in Reqs :
       (ResetSeen(r) /\ req'[r] # req[r])
         => (messages' = messages /\ currentSessionId' = currentSessionId)]_vars

\* The part of C19 that the code keeps: after the reset, the steps of the
\* request from the first read on (content, step, isStreaming and db_id
\* updates by id) leave the list and the active session alone.
C19_UpdatesAreNoOps ==
  [][\A r \in Reqs :
       (ResetSeen(r) /\ req[r].aiTempId # NoId /\ req'[r] # req[r])
         => (messages' = messages /\ currentSessionId' = currentSessionId)]_vars

\* The content that request r has passed to its latest saveMessage.
LastSaved(r) == req[r].saved[Len(req[r].saved)].content

\* C20: the step that ends the fallback of a stream without content leaves
\* one content in the assistant turn of the list and in the argument of
\* saveMessage: the answer field of the body, else its content field, when
\* the body was read and parsed, and parseFailContent when it was not.
C20_FallbackContent ==
  [][\A r \in Reqs :
       (req[r].pc = "fallback" /\ req'[r].pc # "fallback")
         => LET full == req'[r].fullContent
            IN /\ \/ full = parseFailContent
                  \/ \E data \in FallbackBodies :
                       full = IF data.answer # <<>> THEN data.answer
                              ELSE IF data.content # <<>> THEN data.content
                              ELSE defaultAnswer
               /\ LastSaved(r)' = full
               /\ \A i \in 1..Len(messages') :
                    messages'[i].id = req[r].aiTempId
                      => messages'[i].content = full]_vars

\* The part of C20 that the code keeps: the row that is persisted after the
\* fallback carries the content chosen by the fallback, and a body that was
\* parsed is shown in the assistant turn as well.
C20_FallbackPersisted ==
  [][\A r \in Reqs :
       (req[r].pc = "fallback" /\ req'[r].pc # "fallback")
         => /\ LastSaved(r)' = req'[r].fullContent
            /\ req'[r].fullContent # parseFailContent
                 => \A i \in 1..Len(messages') :
                      messages'[i].id = req[r].aiTempId
                        => messages'[i].content = req'[r].fullContent]_vars

\* The status changes of a process step that the state machine allows.
StatusChanges ==
  {<<"pending", "running">>, <<"running", "done">>, <<"running", "error">>}

\* From list a to list b (b is a mapped, possibly with messages appended)
\* every step keeps its status or makes one allowed change.
Lawful(a, b) ==
  /\ Len(b) >= Len(a)
  /\ \A i \in 1..Len(a) :
       /\ Len(b[i].processSteps) = Len(a[i].processSteps)
       /\ \A k \in 1..Len(a[i].processSteps) :
            \/ b[i].processSteps[k].status = a[i].processSteps[k].status
            \/ <<a[i].processSteps[k].status, b[i].processSteps[k].status>>
                 \in StatusChanges

\* The contexts after each setMessages updater that a block queues, in the
\* order of the calls: the loop over the triggered steps,
RECURSIVE ActivateTrail(_, _)
ActivateTrail(c, triggered) ==
  IF triggered = <<>> THEN <<>>
  ELSE LET c1 == IF Head(triggered) \notin c.q.activatedSteps
                   THEN activateStep(c, Head(triggered)) ELSE c
       IN <<c1>> \o ActivateTrail(c1, Tail(triggered))

\* the body of "if (data.content)",
ContentTrail(c, content) ==
  LET s == [c EXCEPT !.q.responseStarted = TRUE]
      moves == ~c.q.responseStarted /\ s.q.currentStepIndex < Len(stepOrder) - 1
      a == completeStep(s, stepOrder[s.q.currentStepIndex + 1])
      b == activateStep([a EXCEPT !.q.currentStepIndex = Len(stepOrder) - 1],
                        "writing")
      c1 == IF moves THEN b ELSE IF ~c.q.responseStarted THEN s ELSE c
  IN (IF moves THEN <<a, b>> ELSE <<>>)
       \o ActivateTrail(c1, detectStepsFromChunk(content))
       \o <<OnContent(c, content)>>

\* one pass of the for loop over the lines,
LineTrail(c, line) ==
  IF /\ StartsWithData(line)
     /\ DataStr(line) # <<Tok("[DONE]")>>
     /\ ParseOk(DataStr(line))
     /\ JsonParse(DataStr(line)).type \notin {"heartbeat", "done"}
     /\ JsonParse(DataStr(line)).content # <<>>
    THEN ContentTrail(c, JsonParse(DataStr(line)).content)
    ELSE <<OnLine(c, line)>>

\* the for loop over the lines of a chunk,
RECURSIVE LinesTrail(_, _)
LinesTrail(c, lines) ==
  IF lines = <<>> THEN <<>>
  ELSE LineTrail(c, Head(lines))
         \o (IF Breaks(Head(lines)) THEN <<>>
             ELSE LinesTrail(OnLine(c, Head(lines)), Tail(lines)))

\* the loop "Complete all remaining steps" from index n,
RECURSIVE CompleteTrail(_, _)
CompleteTrail(c, n) ==
  IF n > Len(stepOrder) THEN <<>>
  ELSE LET a == IF stepOrder[n] \notin c.q.activatedSteps
                  THEN activateStep(c, stepOrder[n]) ELSE c
           b == completeStep(a, stepOrder[n])
       IN <<a, b>> \o CompleteTrail(b, n + 1)

\* and a whole step of the read loop of call r on the next n tokens of the
\* body (n = 0: the body has ended), with the end of the loop when the chunk
\* ends it.
ReadTrail(r, n) ==
  LET chunk == SubSeq(req[r].body, 1, n)
      c0 == [Ctx(r) EXCEPT !.q.body = SubSeq(@, n + 1, Len(@))]
      c == OnChunk(c0, chunk)
      end == n = 0 \/ c.q.done
      d == [c EXCEPT !.q.stepInterval = FALSE, !.q.done = TRUE]
  IN <<c0>> \o LinesTrail(c0, Split(chunk))
       \o (IF end THEN CompleteTrail(d, 1) \o <<AfterLoop(d)>> ELSE <<>>)

\* C21: every setMessages updater of a turn changes the status of a process
\* step, if at all, from pending to running, from running to done or from
\* running to error: in the read loop and at its end updater by updater,
\* in every other step of the turn from state to state.
C21_StepStateMachine ==
  [][LET Reads(r) == /\ req[r].pc = "reading" /\ req'[r] # req[r]
                     /\ req'[r].outcome # "caught"
     IN IF \E r \in Reqs : Reads(r)
          THEN \A r \in Reqs :
                 Reads(r)
                   => \A n \in 0..Len(req[r].body) :
                        Len(req'[r].body) = Len(req[r].body) - n
                          => \A t \in {ReadTrail(r, n)} :
                               /\ t[Len(t)].msgs = messages'
                               /\ \A j \in 1..(Len(t) - 1) :
                                    Lawful(t[j].msgs, t[j + 1].msgs)
          ELSE Lawful(messages, messages')]_vars

\* A read has thrown after the first content: the turn holds a step that
\* went from running to done, one that went from running to error and one
\* that never left pending.
C21_Witness ==
  \E r \in Reqs :
    /\ req[r].outcome = "caught" /\ req[r].responseStarted
    /\ \E i \in WithId(messages, req[r].aiTempId) :
         Statuses(messages[i]) = {"done", "error", "pending"}

\* A stream has ended normally after a phase signal activated a step out of
\* the nominal order: every step is done.
C21_WitnessEnd ==
  \E r \in Reqs :
    /\ req[r].outcome = "persisted"
    /\ \E i \in WithId(messages, req[r].aiTempId) :
         /\ Statuses(messages[i]) = {"done"}
         /\ messages[i].processSteps[2].startedAt
              < messages[i].processSteps[3].startedAt

\* C22: the interval of a call exists only while the call is in its read
\* loop, with isLoading true: it is cleared in the block that ends the loop
\* and in the catch block, so a call that has gone on to the fallback or to
\* a save, or has returned, has no interval whose callback could run.
C22_TimerCancelled ==
  \A r \in Reqs : req[r].stepInterval => (req[r].pc = "reading" /\ isLoading)

\* A call whose read loop threw after the first content has returned: the
\* interval it created is cleared and isLoading is false.
C22_Witness ==
  \E r \in Reqs :
    /\ req[r].pc = "returned" /\ req[r].outcome = "caught"
    /\ req[r].responseStarted /\ ~req[r].stepInterval /\ ~isLoading

\* Content fragments of one or two lexemes.
Fragments == UNION {[1..n -> DetectLexemes] : n \in 1..2}

\* What the read loop owes to the signals of a content record: d is the
\* context after the record content was processed in context c.
SignalsActivated(c, content, d) ==
  LET triggered == Ids(detectStepsFromChunk(content))
  IN /\ triggered \subseteq d.q.activatedSteps
     /\ d.q.activatedSteps \ triggered
          \subseteq c.q.activatedSteps \cup {"writing"}
     /\ \A i \in WithId(c.msgs, c.q.aiTempId) :
          \A k \in 1..Len(c.msgs[i].processSteps) :
            LET s == c.msgs[i].processSteps[k]
                s2 == d.msgs[i].processSteps[k]
            IN s.id \in triggered
                 => /\ s.status = "pending"
                         => s2.status = "running" /\ s2.startedAt = c.now
                    /\ s.id \in c.q.activatedSteps
                         => /\ s2.startedAt = s.startedAt
                            /\ \/ s2.status = s.status
                               \/ /\ ~c.q.responseStarted
                                  /\ s.id = stepOrder[c.q.currentStepIndex + 1]
                                  /\ s.status = "running" /\ s2.status = "done"

\* C23: after the read loop has processed a content record, every step that
\* detectStepsFromChunk returns for the fragment is activated; such a step
\* of the turn that was pending is running, wherever it stands in the
\* order; such a step that was activated before keeps its start and its
\* status (the current step is completed by the first content). Stated for
\* every first record that a read delivers and, in every state of the read
\* loop after it, for every fragment of Fragments that could come next.
C23_SignalsActivate ==
  /\ [](\A r \in Reqs :
          (req[r].pc = "reading" /\ req[r].responseStarted)
            => \A content \in Fragments, c \in {Ctx(r)} :
                 \A d \in {OnContent(c, content)} :
                   SignalsActivated(c, content, d))
  /\ [][\A r \in Reqs :
          (/\ req[r].pc = "reading" /\ req'[r].pc = "reading"
           /\ Len(req[r].wire) = 1 /\ req[r].wire[1].kind = "json"
           /\ req[r].body # <<>> /\ req'[r].body = <<>>)
            => \A c \in {Ctx(r)} :
                 \A d \in {[c EXCEPT !.msgs = messages', !.q = req'[r]]} :
                   SignalsActivated(c, req[r].wire[1].json.content, d)]_vars

\* A first content record that names a section and an amendment has been
\* read: sections is done, amendments and writing are running.
C23_Witness ==
  \E r \in Reqs :
    /\ req[r].pc = "reading" /\ req[r].responseStarted
    /\ {"sections", "amendments"} \subseteq Ids(detectStepsFromChunk(req[r].fullContent))
    /\ \E i \in WithId(messages, req[r].aiTempId) :
         /\ messages[i].processSteps[1].status = "done"
         /\ messages[i].processSteps[2].status = "running"
         /\ messages[i].processSteps[3].status = "pending"
         /\ messages[i].processSteps[5].status = "running"

C26_LocalEqualsPersisted ==
  \A i \in 1..Len(messages), n \in 1..Len(chat_messages) :
    (messages[i].sender = "ai" /\ messages[i].db_id = chat_messages[n].id)
      => messages[i].content = chat_messages[n].content

\* The part of C26 that the code keeps: the same, for every row but the one
\* that holds parseFailContent.
C26_EqualUnlessParseFailed ==
  \A i \in 1..Len(messages), n \in 1..Len(chat_messages) :
    (/\ messages[i].sender = "ai" /\ messages[i].db_id = chat_messages[n].id
     /\ chat_messages[n].content # parseFailContent)
      => messages[i].content = chat_messages[n].content

\* The calls of processMessage that have not returned.
InFlight == {r \in Reqs : req[r].pc \notin {"idle", "returned"}}

\* The calls that found no active session and have created one.
Creators == {r \in Reqs : req[r].closureSessionId = NULL /\ req[r].sessionId # NULL}

\* C27: at most one call of processMessage is in progress at a time, and
\* the sends issued while no session is active create at most one session.
C27_OneSendAtATime ==
  /\ Cardinality(InFlight) <= 1
  /\ Cardinality(Creators) <= 1

\* The second half of C27 on its own.
C27_OneSessionCreated == Cardinality(Creators) <= 1

\* The part of C27 that the code keeps: from setIsLoading(true) until the
\* call returns, no other call starts.
C27_NoStartWhileLoading ==
  [][\A r \in Reqs :
       (req[r].pc = "idle" /\ req'[r].pc # "idle") => ~isLoading]_vars

\* C28: a process step that is done keeps its durationMs and its detail in
\* every later step of the turn.
C28_DoneStepFrozen ==
  [][\A i \in 1..Len(messages) :
       (i <= Len(messages') /\ messages'[i].id = messages[i].id)
         => \A k \in 1..Len(messages[i].processSteps) :
              (/\ k <= Len(messages'[i].processSteps)
               /\ messages[i].processSteps[k].status = "done")
                => /\ messages'[i].processSteps[k].durationMs
                        = messages[i].processSteps[k].durationMs
                   /\ messages'[i].processSteps[k].detail
                        = messages[i].processSteps[k].detail]_vars

\* The part of C28 that the code keeps: a done step keeps its status, its
\* start and its detail, and its duration never gets shorter.
C28_DoneStepStays ==
  [][\A i \in 1..Len(messages) :
       (i <= Len(messages') /\ messages'[i].id = messages[i].id)
         => \A k \in 1..Len(messages[i].processSteps) :
              (/\ k <= Len(messages'[i].processSteps)
               /\ messages[i].processSteps[k].status = "done")
                => /\ messages'[i].processSteps[k].status = "done"
                   /\ messages'[i].processSteps[k].startedAt
                        = messages[i].processSteps[k].startedAt
                   /\ messages'[i].processSteps[k].detail
                        = messages[i].processSteps[k].detail
                   /\ messages'[i].processSteps[k].durationMs
                        >= messages[i].processSteps[k].durationMs]_vars

\* C29: when a regeneration returns from a guard of processMessage (usage
\* check denied or failed, session creation failed), the list is the one
\* that handleRegenerate found, the previous answer included.
C29_AbortedRegenerationKeepsAnswer ==
  [][\A r \in Reqs :
       (/\ req[r].isRegeneration
        /\ req[r].pc # "returned" /\ req'[r].pc = "returned"
        /\ req'[r].outcome \in {"denied", "usageError", "nosession"})
         => messages' = req[r].before]_vars

\* What the code does instead: the list is the one that handleRegenerate
\* left, without the previous answer, unless something else changed it.
C29_AbortedRegenerationLosesAnswer ==
  [][\A r \in Reqs :
       (/\ req[r].isRegeneration
        /\ req[r].pc # "returned" /\ req'[r].pc = "returned"
        /\ req'[r].outcome \in {"denied", "usageError", "nosession"}
        /\ messages = HandlerLeft(r))
         => /\ messages' = HandlerLeft(r)
            /\ Len(messages') = Len(req[r].before) - 1]_vars

\* The calls of saveMessage that call r has made for sender.
SavesOf(r, sender) ==
  {n \in 1..Len(req[r].saved) : req[r].saved[n].sender = sender}

\* C30: a call that has appended its placeholder has saved its user message
\* exactly once, first of all and before the request to the ask endpoint,
\* unless it is a regeneration, which saves none; it saves an 'ai' message
\* at most once, and exactly once by the time it returns: the final content,
\* or the apology when the request or the stream failed. A user save that
\* returned null does not stop the send and leaves the optimistic user
\* message without db_id.
C30_Saves ==
  /\ [](\A r \in Reqs :
          /\ Cardinality(SavesOf(r, "ai")) <= 1
          /\ Cardinality(SavesOf(r, "user")) <= 1
          /\ req[r].isRegeneration => SavesOf(r, "user") = {}
          /\ (req[r].aiTempId # NoId \/ req[r].asked)
               => /\ req[r].aiTempId # NoId /\ req[r].asked
                  /\ ~req[r].isRegeneration
                       => /\ SavesOf(r, "user") = {1}
                          /\ req[r].saved[1].content = req[r].messageContent
          /\ (req[r].aiTempId # NoId /\ req[r].pc = "returned")
               => /\ Cardinality(SavesOf(r, "ai")) = 1
                  /\ req[r].outcome \in {"persisted", "caught"}
                  /\ LastSaved(r) = IF req[r].outcome = "caught" THEN errContent
                                    ELSE req[r].fullContent
                  /\ LastSaved(r) # <<>>)
  /\ [][\A r \in Reqs :
          (req[r].pc = "savedUser" /\ req[r].dbId = NoId /\ req'[r] # req[r])
            => /\ req'[r].pc \in {"titling", "fetching"}
               /\ Len(messages') >= Len(messages)
               /\ \A i \in WithId(messages, req[r].tempId) :
                    messages'[i].db_id = messages[i].db_id]_vars

\* A send whose user save returned null has persisted its answer: the user
\* message of the list has no db_id, the call has made one user save and
\* one 'ai' save.
C30_Witness ==
  \E r \in Reqs :
    /\ req[r].pc = "returned" /\ req[r].outcome = "persisted"
    /\ ~req[r].isRegeneration
    /\ Len(req[r].saved) = 2
    /\ \E i \in WithId(messages, req[r].tempId) :
         messages[i].sender = "user" /\ messages[i].db_id = NoId
    /\ \A n \in 1..Len(chat_messages) : chat_messages[n].sender = "ai"
    /\ chat_messages # <<>>

====
